---- MODULE Spec2Model ----
(***************************************************************************)
(* Model of src/claim.js: the retry wrapper (retryLogic), the provider     *)
(* wrapper (Web3Custom), the faucet orchestrator (TekoFinance) and the     *)
(* driver (main, mainMenu).                                                *)
(*                                                                         *)
(* The program is one JavaScript thread of control (main) plus the         *)
(* un-awaited promise chain started by the Web3Custom constructor          *)
(* (initializeProvider).  A state of the model is a suspension point: pc   *)
(* names the await at which main is suspended, initPc the await at which   *)
(* initializeProvider is suspended.  An action completes the outstanding   *)
(* operation with an outcome chosen by the environment (the node, the      *)
(* signer, the user, Math.random) and runs the code up to the next await.  *)
(***************************************************************************)
EXTENDS Integers, Sequences, FiniteSets, TLC

VARIABLES
    pc,            \* await at which the main thread of control is suspended
    mainError,     \* message of the error that ended main ("none" if none)
    initPc,        \* await at which initializeProvider is suspended
    initAttempt,   \* initializeProvider's loop variable `attempt`
    numLoops,      \* mainMenu: numLoops of the current claim command
    loopI,         \* mainMenu: loop variable i of the claim loop
    balIdx,        \* mainMenu: position in the balance display loop
    order,         \* faucet: the payloads array after sort()
    idx,           \* faucet: position of the for-of loop in order
    faucetResult,  \* faucet: the boolean returned (valid at "faucetReturned")
    fn,            \* retryLogic: the wrapped operation
    maxAttempts,   \* retryLogic: parameter maxAttempts
    pauseRange,    \* retryLogic: parameter pauseRange
    attempt,       \* retryLogic: loop variable attempt
    pause,         \* retryLogic: seconds of the sleep in progress
    ret,           \* retryLogic: how the last invocation ended
    txData,        \* executeTransaction: the request object of this attempt
    sent,          \* the object last handed to wallet.sendTransaction
    failFirst,     \* the flaky operation: number of leading calls that throw
    calls,         \* history: calls of fn in this retryLogic invocation
    sleeps,        \* history: backoff sleeps in this retryLogic invocation
    sends,         \* history: sendTransaction calls in the current attempt
    submittedTo,   \* history: contracts a request was sent to in this run
    settled,       \* history: how the last attempt settled in this run
    runClean,      \* history: no node call failed or reverted in this run
    everSubmitted, \* history: some transaction was handed to the signer
    checkCalls,    \* history: getNetwork calls made by checkNetwork
    label,         \* retryLogic: parameter accountIndex
    caught,        \* retryLogic: log entry of the catch block in progress
    warns,         \* history: warnings logged by this retryLogic invocation
    errs,          \* history: errors logged by this retryLogic invocation
    lastEstimate,  \* history: gas limit the node estimated in this attempt (0: none)
    feeData,       \* getGasParams: the fee data the node returned
    gasParams,     \* getGasParams: the object returned
    minedOk,       \* history: requests of this operation mined with success on chain
    checkedId      \* history: network id seen by checkNetwork (0: none)

vars == <<pc, mainError, initPc, initAttempt, numLoops, loopI, balIdx, order,
          idx, faucetResult, fn, maxAttempts, pauseRange, attempt, pause, ret,
          txData, sent, failFirst, calls, sleeps, sends, submittedTo,
              settled,
          runClean, everSubmitted, checkCalls, label,
          caught,
          warns,
          errs,
          lastEstimate,
          feeData,
          gasParams,
          minedOk,
          checkedId>>

----------------------------------------------------------------------------
(* Bounds of the model *)

\* largest fee amount (gwei) the node reports in a fee field
MaxFee == 3
\* largest number of claims the user asks for in one claim command
MaxLoops == 2
\* largest maxAttempts given to retryLogic when it wraps the flaky operation
MaxAttemptsBound == 3
\* Math.random() is drawn from {0/RandDen, ..., (RandDen-1)/RandDen}
RandDen == 6

----------------------------------------------------------------------------
(* Program constants *)

CHAIN_ID == 6342
FaucetMaxAttempts == 3
InitMaxRetries == 3
PAUSE_BETWEEN_ATTEMPTS == <<5, 10>>
\* lines 107, 111: ethers.parseUnits("20", "gwei"), in gwei
FallbackGasPrice == 20
\* accountIndex of the one TekoFinance object main builds
AccountIndex == "1"

\* network ids a node may report
NetIds == {CHAIN_ID, 1}
\* gas limits the node may estimate
GasEstimates == {21000, 60000}
\* pause ranges given to retryLogic when it wraps the flaky operation
PauseRanges == {PAUSE_BETWEEN_ATTEMPTS, <<1, 1>>, <<0, 2>>}

Tokens == <<"tkETH", "tkUSDC", "tkWBTC", "cUSD">>
TokenSet == {Tokens[j] : j \in 1..Len(Tokens)}

ContractOf(token) ==
    CASE token = "tkETH"  -> "0x176735870dc6C22B4EBFBf519DE2ce758de78d94"
      [] token = "tkUSDC" -> "0xFaf334e157175Ff676911AdcF0964D7f54F2C424"
      [] token = "tkWBTC" -> "0xF82ff0799448630eB56Ce747Db840a2E02Cde4D8"
      [] token = "cUSD"   -> "0xE9b6e75C243B6100ffcb1c66e8f78F96FeeA727F"

AmountOf(token) ==
    CASE token = "tkETH"  -> "0de0b6b3a7640000"
      [] token = "tkUSDC" -> "77359400"
      [] token = "tkWBTC" -> "1e8480"
      [] token = "cUSD"   -> "3635c9adc5dea00000"

\* faucet(): the payloads array as built, before sort()
Payloads ==
    [j \in 1..Len(Tokens) |->
        [token    |-> Tokens[j],
         payload  |-> <<"0x40c10f19", "wallet.address", AmountOf(Tokens[j])>>,
         contract |-> ContractOf(Tokens[j])]]

NoTx == [to |-> "none", data |-> <<>>, value |-> 0, from |-> "none",
         gasLimit |-> 0, chainId |-> 0]
NoRet == [kind |-> "none", value |-> "none", error |-> "none", call |-> 0]
NoOrder == <<>>
NoSettled == [token |-> "none", outcome |-> "none"]
\* a fee field of ethers' FeeData is null or a bigint; amounts are in gwei
Null == [present |-> FALSE, value |-> 0]
NoFeeData == [gasPrice |-> Null, maxFeePerGas |-> Null,
              maxPriorityFeePerGas |-> Null]
NoGasParams == [kind |-> "none", gasPrice |-> 0, maxFeePerGas |-> 0,
                maxPriorityFeePerGas |-> 0]
NoLog == [level |-> "none", label |-> "none", msg |-> "none"]

----------------------------------------------------------------------------
(* The main thread's state as one record, so that the code's functions     *)
(* can be written as operators from state to state.                        *)

Cur ==
    [pc |-> pc, mainError |-> mainError, numLoops |-> numLoops,
     loopI |-> loopI, balIdx |-> balIdx, order |-> order, idx |-> idx,
     faucetResult |-> faucetResult, fn |-> fn, maxAttempts |-> maxAttempts,
     pauseRange |-> pauseRange, attempt |-> attempt, pause |-> pause,
     ret |-> ret, txData |-> txData, sent |-> sent, failFirst |-> failFirst,
     calls |-> calls, sleeps |-> sleeps, sends |-> sends,
     submittedTo |-> submittedTo, settled |-> settled, runClean |-> runClean,
     everSubmitted |-> everSubmitted, checkCalls |-> checkCalls,
     label |-> label,
     caught |-> caught,
     warns |-> warns,
     errs |-> errs,
     lastEstimate |-> lastEstimate,
     feeData |-> feeData,
     gasParams |-> gasParams,
     minedOk |-> minedOk,
     checkedId |-> checkedId]

Become(s) ==
    /\ pc' = s.pc
    /\ mainError' = s.mainError
    /\ numLoops' = s.numLoops
    /\ loopI' = s.loopI
    /\ balIdx' = s.balIdx
    /\ order' = s.order
    /\ idx' = s.idx
    /\ faucetResult' = s.faucetResult
    /\ fn' = s.fn
    /\ maxAttempts' = s.maxAttempts
    /\ pauseRange' = s.pauseRange
    /\ attempt' = s.attempt
    /\ pause' = s.pause
    /\ ret' = s.ret
    /\ txData' = s.txData
    /\ sent' = s.sent
    /\ failFirst' = s.failFirst
    /\ calls' = s.calls
    /\ sleeps' = s.sleeps
    /\ sends' = s.sends
    /\ submittedTo' = s.submittedTo
    /\ settled' = s.settled
    /\ runClean' = s.runClean
    /\ everSubmitted' = s.everSubmitted
    /\ checkCalls' = s.checkCalls
    /\ label' = s.label
    /\ caught' = s.caught
    /\ warns' = s.warns
    /\ errs' = s.errs
    /\ lastEstimate' = s.lastEstimate
    /\ feeData' = s.feeData
    /\ gasParams' = s.gasParams
    /\ minedOk' = s.minedOk
    /\ checkedId' = s.checkedId

\* the payload the faucet's for-of loop is at
CurPayload(s) == s.order[s.idx]
CurToken(s) == CurPayload(s).token

----------------------------------------------------------------------------
(* retryLogic (lines 36-54) and what it wraps *)

\* a retry loop that gives up one attempt late
IsLastAttempt_late(a, n) == a = n + 1

\* line 41: attempt === maxAttempts
IsLastAttempt(a, n) == a = n

\* Math.round in place of Math.floor
PauseOf_round(r, range) ==
    ((2 * r * (range[2] - range[1] + 1) + RandDen) \div (2 * RandDen))
        + range[1]

\* lines 45-47: Math.floor(Math.random() * (hi - lo + 1) + lo), with
\* Math.random() = r / RandDen
PauseOf(r, range) ==
    ((r * (range[2] - range[1] + 1)) \div RandDen) + range[1]

\* lines 262-267: the request object built by the closure fn
BuildTx(p) ==
    [to |-> p.contract, data |-> p.payload, value |-> 0,
     from |-> "wallet.address", gasLimit |-> 0, chainId |-> 0]

\* the request handed over without the chain id
SignerRequest_bare(tx, chainId) == tx

\* lines 121-124: { ...txData, chainId }
SignerRequest(tx, chainId) == [tx EXCEPT !.chainId = chainId]

\* lines 249, 252: faucet() resolves with a boolean
faucet_return(s, b) ==
    [s EXCEPT !.pc = "faucetReturned", !.faucetResult = b,
              !.txData = NoTx, !.sent = NoTx, !.lastEstimate = 0,
              !.pause = 0, !.sends = 0, !.minedOk = 0]

RECURSIVE faucet_for(_)

\* a catch inside the for-of loop: the failure is logged and the loop goes on
faucet_catch_continue(s, error) == faucet_for([s EXCEPT !.idx = @ + 1])

\* lines 250-253: catch (error) { logger.error(...); return false; }
faucet_catch(s, error) == faucet_return(s, FALSE)

\* line 39 calling fn: the flaky operation, or the closure of lines 257-285
\* up to its first await (executeTransaction -> estimateGas, lines 117, 91)
fn_call(s) ==
    IF s.fn = "flaky"
    THEN [s EXCEPT !.pc = "fn", !.calls = @ + 1, !.caught = NoLog]
    ELSE [s EXCEPT !.pc = "estimateGas", !.calls = @ + 1, !.sends = 0,
                   !.txData = BuildTx(CurPayload(s)), !.sent = NoTx, !.lastEstimate = 0,
                   !.pause = 0, !.caught = NoLog]

\* await fn() without the return: the loop goes on after a success
retryLogic_return_again(s, value) ==
    IF s.attempt < s.maxAttempts
    THEN fn_call([s EXCEPT !.attempt = @ + 1])
    ELSE faucet_return(s, TRUE)

\* line 39: return await fn(); then line 287 and the for-of loop of faucet
retryLogic_return(s, value) ==
    LET r == [kind |-> "returned", value |-> value, error |-> "none",
              call |-> s.calls]
    IN  IF s.fn = "flaky"
        THEN [s EXCEPT !.pc = "returned", !.ret = r, !.pause = 0]
        ELSE faucet_for([s EXCEPT !.ret = r, !.idx = @ + 1,
                                  !.txData = NoTx, !.sent = NoTx, !.lastEstimate = 0])

\* lines 42, 48-50: a log entry of retryLogic, `${accountIndex} | ...
\* ${error.message}`
LogOf(s, level, error) ==
    [level |-> level, label |-> s.label, msg |-> error.msg]

\* lines 42-43: logger.error, throw error; then line 287 and the catch of
\* faucet
retryLogic_throw(s, error) ==
    LET r == [kind |-> "threw", value |-> "none", error |-> error.msg,
              call |-> error.call]
        t == [s EXCEPT !.ret = r, !.errs = @ + 1,
                       !.caught = LogOf(s, "error", error)]
    IN  IF s.fn = "flaky"
        THEN [t EXCEPT !.pc = "threw", !.pause = 0]
        ELSE faucet_catch(t, error)

\* line 37: the loop test, then line 39
retryLogic_loop(s) ==
    IF s.attempt <= s.maxAttempts
    THEN fn_call(s)
    ELSE retryLogic_return(s, "undefined")

\* a catch block that logs its warning before it tests for the last attempt
retryLogic_catch_warnFirst(s, error, r) ==
    LET t == [s EXCEPT !.warns = @ + 1,
                       !.caught = LogOf(s, "warn", error)]
    IN  IF IsLastAttempt(s.attempt, s.maxAttempts)
        THEN retryLogic_throw(t, error)
        ELSE [t EXCEPT !.pc = "sleep", !.pause = PauseOf(r, s.pauseRange),
                       !.sleeps = @ + 1, !.txData = NoTx, !.sent = NoTx, !.lastEstimate = 0]

\* lines 40-52: the catch block, up to the await of the sleep
retryLogic_catch(s, error, r) ==
    IF IsLastAttempt(s.attempt, s.maxAttempts)
    THEN retryLogic_throw(s, error)
    ELSE [s EXCEPT !.pc = "sleep", !.pause = PauseOf(r, s.pauseRange),
                   !.sleeps = @ + 1, !.txData = NoTx, !.sent = NoTx, !.lastEstimate = 0,
                   !.warns = @ + 1, !.caught = LogOf(s, "warn", error)]

\* lines 51, 37: the sleep is over; attempt++ and the loop test
retryLogic_wake(s) ==
    retryLogic_loop([s EXCEPT !.attempt = @ + 1, !.pause = 0])

\* a retryLogic whose attempt counter lives on from the call before
retryLogic_carry(s, f, n, range, accountIndex) ==
    retryLogic_loop([s EXCEPT !.fn = f, !.maxAttempts = n,
                              !.pauseRange = range, !.label = accountIndex,
                              !.attempt = IF @ = 0 THEN 1 ELSE @,
                              !.calls = 0, !.sleeps = 0,
                              !.warns = 0, !.errs = 0, !.caught = NoLog,
                              !.ret = NoRet])

\* line 36: retryLogic(fn, maxAttempts, pauseRange, accountIndex)
retryLogic(s, f, n, range, accountIndex) ==
    retryLogic_loop([s EXCEPT !.fn = f, !.maxAttempts = n,
                              !.pauseRange = range, !.label = accountIndex,
                              !.attempt = 1, !.calls = 0, !.sleeps = 0,
                              !.warns = 0, !.errs = 0, !.caught = NoLog,
                              !.ret = NoRet])

\* line 287
requestFaucetToken(s) ==
    retryLogic([s EXCEPT !.minedOk = 0], "requestFaucetToken.fn",
               FaucetMaxAttempts,
               PAUSE_BETWEEN_ATTEMPTS, AccountIndex)

\* lines 241-249: the for-of loop over payloads, then return true
faucet_for(s) ==
    IF s.idx <= Len(s.order)
    THEN requestFaucetToken(s)
    ELSE faucet_return(s, TRUE)

\* a shuffle that draws each position independently
Shuffles_repeating ==
    {[j \in 1..Len(Payloads) |-> Payloads[p[j]]] :
        p \in [1..Len(Payloads) -> 1..Len(Payloads)]}

\* line 239: payloads.sort(() => Math.random() - 0.5) leaves some
\* permutation of the array
Shuffles ==
    {[j \in 1..Len(Payloads) |-> Payloads[p[j]]] :
        p \in {q \in [1..Len(Payloads) -> 1..Len(Payloads)] :
                  \A a, b \in 1..Len(Payloads) : a # b => q[a] # q[b]}}

\* lines 214-247: faucet() up to its first await
faucet(s, sorted) ==
    faucet_for([s EXCEPT !.order = sorted, !.idx = 1, !.submittedTo = {},
                         !.settled = NoSettled,
                         !.runClean = TRUE,
                         !.faucetResult = FALSE])

----------------------------------------------------------------------------
(* Web3Custom.executeTransaction (lines 115-142) inside the closure fn     *)
(* (lines 257-285)                                                         *)

\* the attempt of the faucet operation that has just settled
Settled(s, outcome) ==
    [token |-> CurToken(s), outcome |-> outcome]

\* a failure thrown by the operation retryLogic wraps, at its calls-th call
ErrorOf(s, msg) == [msg |-> msg, call |-> s.calls]

\* lines 138-141 and 40: the failure leaves executeTransaction and fn and
\* reaches the catch of retryLogic
fn_throw(s, msg, r) ==
    retryLogic_catch([s EXCEPT !.runClean = FALSE,
                               !.settled = Settled(s, "threw")],
                     ErrorOf(s, msg), r)

\* lines 276-284: if (txHash) return true; else return false
fn_result(txHash) == IF txHash # "null" THEN "true" ELSE "false"

\* lines 269-285, 39: fn resolves with a boolean, which retryLogic returns
fn_return(s, txHash) == retryLogic_return(s, fn_result(txHash))

\* a request sent with a gas limit of its own
executeTransaction_send_fixedGas(s, gasLimit, chainId) ==
    LET tx == [s.txData EXCEPT !.gasLimit = 21000]
    IN  [s EXCEPT !.pc = "sendTransaction", !.txData = tx,
                  !.sent = SignerRequest(tx, chainId),
                  !.sends = @ + 1,
                  !.submittedTo = @ \cup {tx.to},
                  !.everSubmitted = TRUE]

\* lines 117-124: estimateGas resolved; the request is handed to the signer
executeTransaction_send(s, gasLimit, chainId) ==
    LET tx == [s.txData EXCEPT !.gasLimit = gasLimit]
    IN  [s EXCEPT !.pc = "sendTransaction", !.txData = tx,
                  !.sent = SignerRequest(tx, chainId),
                  !.sends = @ + 1,
                  !.submittedTo = @ \cup {tx.to},
                  !.everSubmitted = TRUE]

\* lines 89-91, 117-118: provider.estimateGas resolved with gasLimit
estimateGas_return(s, gasLimit) ==
    executeTransaction_send([s EXCEPT !.lastEstimate = gasLimit], gasLimit,
                            CHAIN_ID)

\* an estimateGas that logs the failure and resolves with nothing
estimateGas_catch_swallow(s, r) == executeTransaction_send(s, 0, CHAIN_ID)

\* lines 92-94: provider.estimateGas rejected; the wrapped error is thrown
estimateGas_catch(s, r) == fn_throw(s, "Failed to estimate gas", r)

\* lines 126-127: sendTransaction resolved; await txResponse.wait()
executeTransaction_wait(s) == [s EXCEPT !.pc = "wait"]

\* lines 129-137: the receipt arrived
executeTransaction_receipt(s, status) ==
    IF status = 1
    THEN fn_return([s EXCEPT !.settled = Settled(s, "success"),
                             !.minedOk = @ + 1], "hash")
    ELSE fn_return([s EXCEPT !.settled = Settled(s, "reverted"),
                             !.runClean = FALSE], "null")

\* lines 127, 138-141: txResponse.wait() rejected (the connection to the
\* node failed); the request it waited for is mined with success or is not
wait_catch(s, mined, r) ==
    fn_throw([s EXCEPT !.minedOk = IF mined THEN @ + 1 ELSE @],
             "wait failed", r)

----------------------------------------------------------------------------
(* main (lines 401-449), TekoFinance.initialize, Web3Custom.checkNetwork   *)
(* and mainMenu (lines 332-398)                                            *)

\* a check that accepts whatever id the node reports
NetworkMatches_any(id) == id # 0

\* lines 147, 424: network.chainId !== BigInt(CHAIN_ID) is false
NetworkMatches(id) == id = CHAIN_ID

\* main returns or its catch (lines 446-448) has logged: main is over
main_end(s, msg) ==
    [s EXCEPT !.pc = "done", !.mainError = msg, !.numLoops = 0, !.loopI = 0,
              !.balIdx = 0]

\* lines 334-345: await inquirer.prompt (the menu)
mainMenu_prompt(s) ==
    [s EXCEPT !.pc = "menu", !.numLoops = 0, !.loopI = 0, !.balIdx = 0,
              !.order = NoOrder, !.idx = 0, !.faucetResult = FALSE,
              !.fn = "none", !.maxAttempts = 0, !.pauseRange = <<0, 0>>,
              !.attempt = 0, !.ret = NoRet, !.calls = 0, !.sleeps = 0,
              !.sends = 0, !.submittedTo = {}, !.settled = NoSettled,
              !.label = "none", !.caught = NoLog, !.warns = 0, !.errs = 0,
              !.runClean = FALSE]

\* a claim loop that a failed run ends
mainMenu_for_break(s, sorted) ==
    IF s.loopI <= s.numLoops /\ (s.loopI = 1 \/ s.faucetResult)
    THEN faucet(s, sorted)
    ELSE mainMenu_prompt(s)

\* lines 383-392: the loop test of the claim loop, then faucet() or the menu
mainMenu_for(s, sorted) ==
    IF s.loopI <= s.numLoops
    THEN faucet(s, sorted)
    ELSE mainMenu_prompt(s)

\* lines 355-360: the balance loop, up to the await of balanceOf
mainMenu_balances(s) ==
    IF s.balIdx <= Len(Tokens)
    THEN [s EXCEPT !.pc = "balanceOf"]
    ELSE mainMenu_prompt(s)

\* lines 144-156, 205-212, 443-448: getNetwork resolved with id inside
\* checkNetwork
checkNetwork_id(s, id) ==
    LET t == [s EXCEPT !.checkedId = id]
    IN  IF NetworkMatches(id)
        THEN mainMenu_prompt(t)
        ELSE main_end(t, "Failed to connect to network: Connected to wrong network")

\* lines 422-445: getNetwork resolved with id inside main; on a match the
\* TekoFinance object is built and initialize() awaits checkNetwork
main_id(s, id) ==
    IF NetworkMatches(id)
    THEN [s EXCEPT !.pc = "checkNetwork", !.checkCalls = @ + 1]
    ELSE main_end(s, "Connected to wrong network")

----------------------------------------------------------------------------
(* Web3Custom.initializeProvider (lines 64-78), started and not awaited by *)
(* the Web3Custom constructor (line 61)                                    *)

\* line 72: attempt === maxRetries
IsLastRetry(a, n) == a = n

\* lines 70-76: getNetwork rejected; the await the function is at next, or
\* "threw" when it throws (line 73)
initializeProvider_catch(a) ==
    IF IsLastRetry(a, InitMaxRetries) THEN "threw" ELSE "delay"

mainVars == <<pc, mainError, numLoops, loopI, balIdx, order, idx,
              faucetResult, fn, maxAttempts, pauseRange, attempt, pause, ret,
              txData, sent, failFirst, calls, sleeps, sends, submittedTo,
              settled,
              runClean, everSubmitted, checkCalls, label,
          caught,
          warns,
          errs,
          lastEstimate,
          feeData,
          gasParams,
          minedOk,
          checkedId>>
mainVarsButPc == <<mainError, numLoops, loopI, balIdx, order, idx,
              faucetResult, fn, maxAttempts, pauseRange, attempt, pause, ret,
              txData, sent, failFirst, calls, sleeps, sends, submittedTo,
              settled,
              runClean, everSubmitted, checkCalls, label,
          caught,
          warns,
          errs,
          lastEstimate,
          feeData,
          gasParams,
          minedOk,
          checkedId>>
initVars == <<initPc, initAttempt>>

\* the process is alive: neither process.exit (line 395) nor an unhandled
\* rejection has ended it
Alive == pc \notin {"exited", "crashed"}

\* values of Math.random(), as numerators over RandDen
Randoms == 0..(RandDen - 1)
\* the smallest and the largest of them
ExtremeRandoms == {0, RandDen - 1}

----------------------------------------------------------------------------
(* Initial states *)

Idle(p) ==
    /\ pc = p
    /\ mainError = "none"
    /\ initPc = "none"
    /\ initAttempt = 0
    /\ numLoops = 0
    /\ loopI = 0
    /\ balIdx = 0
    /\ order = NoOrder
    /\ idx = 0
    /\ faucetResult = FALSE
    /\ fn = "none"
    /\ attempt = 0
    /\ pause = 0
    /\ ret = NoRet
    /\ txData = NoTx
    /\ sent = NoTx
    /\ calls = 0
    /\ sleeps = 0
    /\ sends = 0
    /\ submittedTo = {}
    /\ settled = NoSettled
    /\ runClean = FALSE
    /\ everSubmitted = FALSE
    /\ checkCalls = 0
    /\ label = "none"
    /\ caught = NoLog
    /\ warns = 0
    /\ errs = 0
    /\ lastEstimate = 0
    /\ feeData = NoFeeData
    /\ gasParams = NoGasParams
    /\ minedOk = 0
    /\ checkedId = 0

\* the program at the start of main, awaiting promptPrivateKey (line 406)
Init ==
    /\ Idle("promptPrivateKey")
    /\ maxAttempts = 0
    /\ pauseRange = <<0, 0>>
    /\ failFirst = 0

\* a caller about to call retryLogic on an operation that throws on its
\* first failFirst calls and succeeds afterwards
InitRetry ==
    /\ Idle("callRetry")
    /\ maxAttempts \in 1..MaxAttemptsBound
    /\ pauseRange \in PauseRanges
    /\ failFirst \in 0..MaxAttemptsBound

----------------------------------------------------------------------------
(* Actions of the main thread *)

\* lines 406-410: the private key was entered
PromptPrivateKey ==
    /\ pc = "promptPrivateKey"
    /\ \E valid \in BOOLEAN :
          IF valid
          THEN Become([Cur EXCEPT !.pc = "main.getNetwork"])
          ELSE Become(main_end(Cur, "Invalid private key format"))
    /\ UNCHANGED initVars

\* lines 422-445: provider.getNetwork() of main settled (id 0: rejected).
\* On a match, new TekoFinance -> new Web3Custom -> initializeProvider()
\* runs to its await of getNetwork (line 67) and is left behind (line 61).
MainGetNetwork ==
    /\ pc = "main.getNetwork"
    /\ \E id \in NetIds \cup {0} :
          IF id = 0
          THEN /\ Become(main_end(Cur, "Failed to connect to network"))
               /\ UNCHANGED initVars
          ELSE LET t == main_id(Cur, id)
               IN  /\ Become(t)
                   /\ IF t.pc = "checkNetwork"
                      THEN initPc' = "getNetwork" /\ initAttempt' = 1
                      ELSE UNCHANGED initVars

\* lines 144-156: provider.getNetwork() of checkNetwork settled
CheckNetwork ==
    /\ pc = "checkNetwork"
    /\ \E id \in NetIds \cup {0} :
          IF id = 0
          THEN Become(main_end(Cur, "Failed to connect to network: rpc"))
          ELSE Become(checkNetwork_id(Cur, id))
    /\ UNCHANGED initVars

\* lines 347-360: the user chose "Show Wallet Balances"
MenuBalances ==
    /\ pc = "menu"
    /\ Become(mainMenu_balances([Cur EXCEPT !.balIdx = 1]))
    /\ UNCHANGED initVars

\* line 357: contract.balanceOf settled
BalanceOf ==
    /\ pc = "balanceOf"
    /\ \E ok \in BOOLEAN :
          IF ok
          THEN Become(mainMenu_balances([Cur EXCEPT !.balIdx = @ + 1]))
          ELSE Become(main_end(Cur, "balanceOf failed"))
    /\ UNCHANGED initVars

\* lines 362-385: the user chose "Claim Faucet" and entered loopCount
MenuClaim ==
    /\ pc = "menu"
    /\ \E n \in 1..MaxLoops, sorted \in Shuffles :
          Become(mainMenu_for([Cur EXCEPT !.numLoops = n, !.loopI = 1],
                              sorted))
    /\ UNCHANGED initVars

\* lines 393-395: the user chose "Exit"
MenuExit ==
    /\ pc = "menu"
    /\ pc' = "exited"
    /\ UNCHANGED <<mainVarsButPc, initVars>>

\* lines 385-392: await tekoFinance.faucet() resumed; i++ and the loop test
ClaimNext ==
    /\ pc = "faucetReturned"
    /\ \E sorted \in Shuffles :
          Become(mainMenu_for([Cur EXCEPT !.loopI = @ + 1], sorted))
    /\ UNCHANGED initVars

\* lines 89-95, 117: provider.estimateGas settled; line 272 gives the
\* chain id
EstimateGas ==
    /\ pc = "estimateGas"
    /\ \/ \E g \in GasEstimates :
             Become(estimateGas_return(Cur, g))
       \/ \E r \in ExtremeRandoms :
             Become(estimateGas_catch(Cur, r))
    /\ UNCHANGED initVars

\* line 121: wallet.sendTransaction settled
SendTransaction ==
    /\ pc = "sendTransaction"
    /\ \/ Become(executeTransaction_wait(Cur))
       \/ \E r \in ExtremeRandoms :
             Become(fn_throw(Cur, "sendTransaction failed", r))
    /\ UNCHANGED initVars

\* line 127: txResponse.wait() settled
Wait ==
    /\ pc = "wait"
    /\ \/ \E status \in {0, 1} :
             Become(executeTransaction_receipt(Cur, status))
       \/ \E mined \in BOOLEAN, r \in ExtremeRandoms :
             Become(wait_catch(Cur, mined, r))
    /\ UNCHANGED initVars

\* line 51: the backoff timer fired
Sleep ==
    /\ pc = "sleep"
    /\ Become(retryLogic_wake(Cur))
    /\ UNCHANGED initVars

----------------------------------------------------------------------------
(* Actions of initializeProvider *)

\* line 67: provider.getNetwork() of initializeProvider settled.  When the
\* function throws (line 73) nothing handles the rejection: the runtime
\* either ends the process or only warns, depending on its version and flags.
InitGetNetwork ==
    /\ Alive
    /\ initPc = "getNetwork"
    /\ \E ok \in BOOLEAN, ends \in BOOLEAN :
          IF ok
          THEN initPc' = "returned" /\ UNCHANGED <<initAttempt, mainVars>>
          ELSE /\ initPc' = initializeProvider_catch(initAttempt)
               /\ UNCHANGED initAttempt
               /\ IF initPc' = "threw" /\ ends
                  THEN pc' = "crashed" /\ UNCHANGED mainVarsButPc
                  ELSE UNCHANGED mainVars

\* line 75: the fixed delay is over; attempt++ and getNetwork again
InitDelay ==
    /\ Alive
    /\ initPc = "delay"
    /\ initAttempt' = initAttempt + 1
    /\ initPc' = "getNetwork"
    /\ UNCHANGED mainVars

----------------------------------------------------------------------------
(* Actions of the caller of retryLogic on the flaky operation *)

\* line 36: retryLogic(fn, maxAttempts, pauseRange) is called
CallRetryLogic ==
    /\ pc = "callRetry"
    /\ Become(retryLogic(Cur, "flaky", maxAttempts, pauseRange, "caller"))
    /\ UNCHANGED initVars

\* line 39: the flaky operation settled
Flaky ==
    /\ pc = "fn"
    /\ IF calls <= failFirst
       THEN \E r \in Randoms :
               Become(retryLogic_catch(Cur, ErrorOf(Cur, "flaky failed"), r))
       ELSE Become(retryLogic_return(Cur, "ok"))
    /\ UNCHANGED initVars

----------------------------------------------------------------------------
(* Web3Custom.getGasParams (lines 97-113), called on its own *)

\* the values a fee field can have
FeeFields == {Null} \cup {[present |-> TRUE, value |-> v] : v \in 0..MaxFee}
FeeDatas == [gasPrice : FeeFields, maxFeePerGas : FeeFields,
             maxPriorityFeePerGas : FeeFields]

\* line 100: the truth value JavaScript gives a fee field (null and 0n are
\* false)
Truthy(x) == x.present /\ x.value # 0

\* lines 107, 111: { gasPrice: parseUnits("20", "gwei") }
LegacyGasParams ==
    [kind |-> "legacy", gasPrice |-> FallbackGasPrice, maxFeePerGas |-> 0,
     maxPriorityFeePerGas |-> 0]

\* lines 101-104: { maxFeePerGas, maxPriorityFeePerGas }
Eip1559GasParams(fd) ==
    [kind |-> "eip1559", gasPrice |-> 0,
     maxFeePerGas |-> fd.maxFeePerGas.value,
     maxPriorityFeePerGas |-> fd.maxPriorityFeePerGas.value]

\* lines 99-108: getFeeData resolved with fd
getGasParams_return(s, fd) ==
    [s EXCEPT !.pc = "gasParamsReturned", !.feeData = fd,
              !.gasParams = IF Truthy(fd.maxFeePerGas)
                               /\ Truthy(fd.maxPriorityFeePerGas)
                            THEN Eip1559GasParams(fd)
                            ELSE LegacyGasParams]

\* lines 109-112: getFeeData rejected
getGasParams_catch(s) ==
    [s EXCEPT !.pc = "gasParamsReturned", !.gasParams = LegacyGasParams]

\* a caller about to call getGasParams
InitGas ==
    /\ Idle("callGetGasParams")
    /\ maxAttempts = 0
    /\ pauseRange = <<0, 0>>
    /\ failFirst = 0

\* lines 97-99: getGasParams is called and awaits provider.getFeeData()
CallGetGasParams ==
    /\ pc = "callGetGasParams"
    /\ Become([Cur EXCEPT !.pc = "getFeeData"])
    /\ UNCHANGED initVars

\* line 99: provider.getFeeData settled
GetFeeData ==
    /\ pc = "getFeeData"
    /\ \/ \E fd \in FeeDatas : Become(getGasParams_return(Cur, fd))
       \/ Become(getGasParams_catch(Cur))
    /\ UNCHANGED initVars

----------------------------------------------------------------------------
(* Specifications *)

Next ==
    \/ PromptPrivateKey
    \/ MainGetNetwork
    \/ CheckNetwork
    \/ MenuBalances
    \/ BalanceOf
    \/ MenuClaim
    \/ MenuExit
    \/ ClaimNext
    \/ EstimateGas
    \/ SendTransaction
    \/ Wait
    \/ Sleep
    \/ InitGetNetwork
    \/ InitDelay

Spec == Init /\ [][Next]_vars

NextRetry ==
    \/ CallRetryLogic
    \/ Flaky
    \/ Sleep

SpecRetry == InitRetry /\ [][NextRetry]_vars

NextGas ==
    \/ CallGetGasParams
    \/ GetFeeData

SpecGas == InitGas /\ [][NextGas]_vars

----------------------------------------------------------------------------
(* Vocabulary of the properties *)

\* main is suspended inside an attempt of a faucet operation
AttemptPcs == {"estimateGas", "sendTransaction", "wait", "sleep"}
InAttempt == pc \in AttemptPcs

\* the faucet's for-of loop is at the operation of this token
OnToken(token) ==
    /\ idx \in 1..Len(order)
    /\ order[idx].token = token

AllContracts == {ContractOf(token) : token \in TokenSet}

\* order holds every payload exactly once
IsPermutation(o) ==
    /\ Len(o) = Len(Payloads)
    /\ \A j \in 1..Len(Payloads) :
          Cardinality({k \in 1..Len(o) : o[k] = Payloads[j]}) = 1

\* operations the program has issued and not yet seen settle: at most one by
\* main (the await it is suspended at) and one by initializeProvider
MainOutstanding ==
    IF pc \in AttemptPcs \cup {"main.getNetwork", "checkNetwork", "balanceOf"}
    THEN 1 ELSE 0
InitOutstanding == IF initPc \in {"getNetwork", "delay"} THEN 1 ELSE 0
Outstanding == MainOutstanding + InitOutstanding

\* steps of the main thread
SubmitStep == pc = "estimateGas" /\ pc' = "sendTransaction"
ReturnStep == pc # "faucetReturned" /\ pc' = "faucetReturned"
MovesOn == idx \in 1..Len(order) /\ order' = order /\ idx' = idx + 1

RunStart == pc \notin AttemptPcs /\ pc' \in AttemptPcs

CheckNetworkErrors ==
    {"Failed to connect to network: Connected to wrong network",
     "Failed to connect to network: rpc"}

----------------------------------------------------------------------------
(* Properties *)

\* C1: retryLogic wrapping an operation that throws on its first k calls,
\* k < maxAttempts, and then succeeds never throws; it returns the
\* operation's value after exactly k+1 calls and exactly k sleeps, and every
\* sleep lasts a whole number of seconds within pauseRange.
C1_SucceedsAfterKFailures ==
    failFirst < maxAttempts =>
        /\ pc # "threw"
        /\ calls <= failFirst + 1
        /\ sleeps <= failFirst
        /\ pc = "sleep" =>
              /\ pause \in pauseRange[1]..pauseRange[2]
              /\ sleeps = calls
        /\ pc = "returned" =>
              /\ ret.kind = "returned"
              /\ ret.value = "ok"
              /\ calls = failFirst + 1
              /\ sleeps = failFirst

C1_Witness ==
    /\ pc = "returned"
    /\ maxAttempts = 3
    /\ failFirst = 2
    /\ sleeps = 2
    /\ ret.value = "ok"

\* C2: retryLogic wrapping an operation that fails on every call makes
\* exactly maxAttempts calls and then throws the failure of the last call;
\* it never returns, and it does not sleep after the last call.
C2_AlwaysFailingThrowsLast ==
    failFirst >= maxAttempts /\ pc # "callRetry" =>
        /\ pc # "returned"
        /\ calls <= maxAttempts
        /\ pc = "sleep" => calls < maxAttempts
        /\ pc = "threw" =>
              /\ calls = maxAttempts
              /\ sleeps = maxAttempts - 1
              /\ ret.kind = "threw"
              /\ ret.error = "flaky failed"
              /\ ret.call = maxAttempts

C2_Witness ==
    /\ pc = "threw"
    /\ maxAttempts = 3
    /\ failFirst = 3
    /\ ret.call = 3

\* C3: an attempt whose receipt reports reverted counts as a failed attempt:
\* the same operation is attempted again (after a backoff), or the run has
\* ended in failure because the budget was exhausted.
C3_RevertedIsRetried ==
    settled.outcome = "reverted" =>
        \/ OnToken(settled.token)
        \/ pc = "faucetReturned" /\ ~faucetResult

\* C4: when an operation of a run exhausts its retries, faucet() catches the
\* failure and returns false, and nothing was submitted for the operations
\* that come after it in the run's order.
C4_AbortsOnExhaustedRetries ==
    fn = "requestFaucetToken.fn" /\ ret.kind = "threw" =>
        /\ pc \in {"faucetReturned", "crashed"}
        /\ ~faucetResult
        /\ attempt = FaucetMaxAttempts
        /\ idx \in 1..Len(order)
        /\ \A j \in (idx + 1)..Len(order) :
              order[j].contract \notin submittedTo

C4_Witness ==
    /\ pc = "faucetReturned"
    /\ ~faucetResult
    /\ ret.kind = "threw"
    /\ idx = 2
    /\ order[1].contract \in submittedTo
    /\ order[2].contract \in submittedTo

\* C5: faucet() returns true only if each of the four operations ended with
\* a success receipt: the for-of loop moves past an operation only on a
\* success receipt for it, and true is returned only past the fourth.
C5_TrueOnlyIfAllMinted ==
    [][/\ MovesOn =>
             /\ settled'.token = order[idx].token
             /\ settled'.outcome = "success"
       /\ ReturnStep /\ faucetResult' => idx' = Len(Payloads) + 1]_vars

\* C6: a run in which every node call succeeds and every receipt reports
\* success hands no contract a second request, and when it returns it returns
\* true with a request sent to each of the four contracts, its order being a
\* permutation of the four operations.
C6_CleanRunMintsEachOnce ==
    [][/\ SubmitStep /\ runClean' => sent'.to \notin submittedTo
       /\ ReturnStep /\ runClean' =>
             /\ faucetResult'
             /\ submittedTo' = AllContracts
             /\ IsPermutation(order')]_vars

C6_Witness ==
    /\ pc = "faucetReturned"
    /\ runClean
    /\ faucetResult
    /\ submittedTo = AllContracts
    /\ order # Payloads

\* C7: checkNetwork succeeds exactly when the node reports 6342; on any
\* other id, or none, it fails once, without a retry, main ends with the
\* failure, and no transaction is ever submitted.
C7_CheckNetworkGuards ==
    /\ checkCalls <= 1
    /\ checkedId = 6342 => mainError \notin CheckNetworkErrors
    /\ checkedId \notin {0, 6342} =>
          mainError = "Failed to connect to network: Connected to wrong network"
    /\ mainError \in CheckNetworkErrors =>
          /\ pc \in {"done", "crashed"}
          /\ checkedId # 6342
          /\ ~everSubmitted
          /\ sent = NoTx
    /\ everSubmitted => checkedId = 6342

C7_Witness ==
    /\ checkedId = 1
    /\ pc = "done"
    /\ mainError = "Failed to connect to network: Connected to wrong network"

\* C8: every request handed to the signer carries chain id 6342.
C8_SubmissionsCarryChainId ==
    /\ pc \in {"sendTransaction", "wait"} => sent # NoTx
    /\ sent # NoTx => sent.chainId = 6342

C8_Witness ==
    /\ pc = "sendTransaction"
    /\ attempt = 2
    /\ loopI = 2
    /\ sent.chainId = 6342

\* C9: an attempt makes at most one sendTransaction call, exactly one once
\* its gas estimate has arrived, and after an attempt of an operation has
\* succeeded no attempt of that operation is made again in the run.
C9_NoDoubleSubmit ==
    /\ sends <= 1
    /\ pc = "estimateGas" => sends = 0
    /\ pc \in {"sendTransaction", "wait"} => sends = 1
    /\ InAttempt /\ settled.outcome = "success" => ~OnToken(settled.token)

C9_Witness ==
    /\ pc = "wait"
    /\ sends = 1
    /\ idx = 2
    /\ settled.outcome = "success"
    /\ settled.token = order[1].token

\* C10: within a faucet run at most one operation of the program (node call
\* or sleep, those of initializeProvider included) is outstanding.
C10_OneOutstandingInRun == InAttempt => Outstanding <= 1


\* C11: initializeProvider queries the network at most InitMaxRetries times,
\* and when every query has failed the failure reaches the caller that set
\* the provider up: main ends with it instead of going on with the provider.
C11_InitFailureStopsProgram ==
    /\ initAttempt <= InitMaxRetries
    /\ initPc = "threw" =>
          /\ initAttempt = InitMaxRetries
          /\ pc = "done"
          /\ mainError = "Failed to initialize provider after max retries"


\* C12: an attempt whose estimateGas fails hands nothing to the signer, and
\* the wrapped failure reaches the catch of retryLogic (which sleeps before
\* the next attempt, or rethrows it when the attempts are used up).
C12_NoSubmitWhenEstimateFails ==
    [][pc = "estimateGas" /\ pc' \notin {"estimateGas", "crashed"} =>
          IF lastEstimate' \in GasEstimates
          THEN pc' = "sendTransaction" /\ sends' = 1
          ELSE /\ sends' = 0
               /\ sent' = NoTx
               /\ submittedTo' = submittedTo
               /\ settled'.outcome = "threw"
               /\ caught'.msg = "Failed to estimate gas"
               /\ \/ pc' = "sleep"
                  \/ /\ pc' = "faucetReturned"
                     /\ ~faucetResult'
                     /\ ret'.error = "Failed to estimate gas"]_vars

C12_Witness ==
    /\ pc = "sleep"
    /\ caught.msg = "Failed to estimate gas"
    /\ sends = 0
    /\ attempt = 2
    /\ submittedTo # {}


\* C15: the request is handed to the signer only after the node estimated its
\* gas, and the gasLimit it carries is that estimate.
C15_GasLimitIsTheEstimate ==
    /\ pc = "estimateGas" =>
          /\ txData = BuildTx(CurPayload(Cur))
          /\ lastEstimate = 0 /\ sent = NoTx /\ sends = 0
    /\ pc \in {"sendTransaction", "wait"} =>
          /\ lastEstimate \in GasEstimates
          /\ sent.gasLimit = lastEstimate
          /\ txData.gasLimit = lastEstimate

C15_Witness ==
    /\ pc = "wait"
    /\ sent.gasLimit = 60000
    /\ attempt = 2


\* C13: getGasParams always returns; it returns the EIP-1559 pair exactly when
\* maxFeePerGas and maxPriorityFeePerGas are both present (non-null) in the
\* fee data, and the 20 gwei legacy price in every other case, a failed query
\* included.
C13_PairIffBothPresent ==
    pc = "gasParamsReturned" =>
        IF feeData.maxFeePerGas.present /\ feeData.maxPriorityFeePerGas.present
        THEN gasParams = Eip1559GasParams(feeData)
        ELSE gasParams = LegacyGasParams

\* C20: a request is handed to the signer only after getGasParams resolved
\* the gas parameters in the same attempt, and it carries them.
C20_SubmissionCarriesGasParams ==
    pc \in {"sendTransaction", "wait"} =>
        /\ gasParams # NoGasParams
        /\ \/ "gasPrice" \in DOMAIN sent
           \/ {"maxFeePerGas", "maxPriorityFeePerGas"} \subseteq DOMAIN sent


\* C14: every faucet operation of a run starts with a budget of its own: its
\* first attempt is attempt 1 of 3 with no call or sleep counted, whatever the
\* operations before it used; an operation never goes past its third attempt,
\* an attempt submits at most once, and a run has four operations, one per
\* token (so at most 3 submissions per token and 12 per run).
C14_FreshBudgetPerOperation ==
    [][/\ (MovesOn \/ pc \in {"menu", "faucetReturned"})
          /\ pc' = "estimateGas" =>
             /\ attempt' = 1
             /\ calls' = 1
             /\ sleeps' = 0
       /\ pc' \in AttemptPcs =>
             /\ maxAttempts' = FaucetMaxAttempts
             /\ attempt' \in 1..FaucetMaxAttempts
             /\ calls' = attempt'
             /\ sends' <= 1
             /\ idx' \in 1..Len(Payloads)
             /\ IsPermutation(order')
       /\ SubmitStep =>
             /\ sends' = 1
             /\ sent'.to = ContractOf(order[idx].token)]_vars

C14_Witness ==
    /\ pc = "wait"
    /\ idx = Len(Payloads)
    /\ attempt = FaucetMaxAttempts
    /\ Cardinality(submittedTo) = Len(Payloads)


\* C16: within a run no two requests sent to the contract of one token are
\* both mined with success.
C16_EachTokenMintedOnce == minedOk <= 1


\* C17: a started faucet() run ends only by returning a boolean: from inside
\* an attempt the program goes on to another await of the run or to the
\* return of faucet(), never anywhere else.
C17_RunEndsOnlyByReturning ==
    [][InAttempt => pc' \in AttemptPcs \cup {"faucetReturned"}]_vars

\* C18: the runs of one claim command are strictly sequential: a run starts
\* only when no run has an operation in flight (from the menu, or when the
\* run before it has returned), and after run i < numLoops has returned,
\* true or false, the next step of main starts run i + 1; after the last run
\* main is back at the menu.
C18_RunsAreSequential ==
    [][/\ RunStart =>
             /\ pc \in {"menu", "faucetReturned"}
             /\ pc' = "estimateGas"
             /\ idx' = 1
             /\ loopI' \in 1..numLoops'
       /\ InAttempt /\ pc' \in AttemptPcs => loopI' = loopI /\ order' = order
       /\ pc = "faucetReturned" /\ pc' \notin {"faucetReturned", "crashed"} =>
             IF loopI < numLoops
             THEN /\ RunStart
                  /\ loopI' = loopI + 1
                  /\ numLoops' = numLoops
                  /\ submittedTo' = {}
             ELSE pc' = "menu"]_vars

C18_Witness ==
    /\ pc = "sendTransaction"
    /\ loopI = 2
    /\ numLoops = 2
    /\ idx = 1

\* C19 (as stated): an operation that fails all maxAttempts attempts leaves
\* maxAttempts warnings and one error in the log.
C19_WarningPerFailedAttempt ==
    pc = "threw" => warns = maxAttempts /\ errs = 1

\* C19 (amended): retryLogic logs one warning for every failed attempt that
\* it retries and one error, in place of the warning, for the failed attempt
\* that exhausts maxAttempts; each entry carries the label and the message of
\* the failure.  An operation that fails all n attempts leaves n - 1 warnings
\* and one error.
C19_WarningPerRetriedAttempt ==
    /\ warns = sleeps
    /\ pc = "fn" => warns = calls - 1 /\ errs = 0
    /\ pc = "sleep" =>
          /\ warns = calls
          /\ errs = 0
          /\ caught = [level |-> "warn", label |-> "caller",
                       msg |-> "flaky failed"]
    /\ pc = "returned" => warns = failFirst /\ errs = 0
    /\ pc = "threw" =>
          /\ warns = maxAttempts - 1
          /\ errs = 1
          /\ caught = [level |-> "error", label |-> "caller",
                       msg |-> ret.error]

C19_Witness ==
    /\ pc = "threw"
    /\ maxAttempts = 3
    /\ warns = 2
    /\ errs = 1

====
